---------------------------- MODULE Spec2Model ----------------------------
(***************************************************************************)
(* A model of vae/vae.py: the discretized-logistic likelihood, the         *)
(* Monte-Carlo KL estimator, the projection heads and the VAE Lightning    *)
(* module (construction, forward pass, step, training/validation step and  *)
(* optimizer configuration).                                               *)
(*                                                                         *)
(* Tensors are sequences; reals are fixed-point integers:                  *)
(*   pixels and reconstruction means   in units of 1/512                   *)
(*   latent locations, scales, samples in units of 1/16  (LatUnit)         *)
(*   log_var of the posterior          in units of 2*ln 2 (std = 2^log_var)*)
(*   log_scale of the likelihood       in units of ln 2   (scale = 2^k)    *)
(*   logistic arguments                in units of 1/2048 (TUnit)          *)
(*   probabilities                     in units of 1e-7   (ProbUnit)       *)
(*   log-probabilities, kl, elbo       in units of 1e-3 nat                *)
(*   learning rates                    in units of 1e-6                    *)
(* torch.exp, torch.log and torch.sigmoid are monotone piecewise-linear    *)
(* fixed-point functions; a mean is a floor division.                      *)
(***************************************************************************)
EXTENDS Integers, Sequences, FiniteSets, TLC

(* ------------------------------ bounds --------------------------------- *)
\* images per batch (N)
BatchSize == 2
\* pixels per image (C*H*W, flattened)
NumPix == 2
\* out_dim of the resnet18 encoder; resnet50 has four times as many in the
\* code and twice as many here
FeatDim == 1
\* largest latent_dim a configuration asks for
MaxLatentDim == 2
\* steps (step, training_step, validation_step) in one run
MaxSteps == 2

(* --------------------------- fixed point ------------------------------- *)
LatUnit == 2 ^ 4
TUnit == 2 ^ 11
ProbUnit == 10 ^ 7
\* 1000 * ln 2
Ln2Milli == 693

Abs(x) == IF x < 0 THEN -x ELSE x
Max(a, b) == IF a >= b THEN a ELSE b
Min(a, b) == IF a <= b THEN a ELSE b

\* << F(1), ..., F(n) >>
Tab(n, F(_)) ==
    LET RECURSIVE Upto(_)
        Upto(k) == IF k = 0 THEN << >> ELSE Append(Upto(k - 1), F(k))
    IN  Upto(n)

\* F(e), with e evaluated once
Let(e, F(_)) == CHOOSE r \in { F(v) : v \in {e} } : TRUE

RECURSIVE SumTo(_, _)
SumTo(s, k) == IF k = 0 THEN 0 ELSE s[k] + SumTo(s, k - 1)

\* tensor.sum()
SumSeq(s) == Let(s, LAMBDA v : SumTo(v, Len(v)))

RECURSIVE MaxTo(_, _)
MaxTo(s, k) == IF k = 1 THEN s[1] ELSE Max(s[k], MaxTo(s, k - 1))

\* tensor.max()
MaxSeq(s) == Let(s, LAMBDA v : MaxTo(v, Len(v)))

\* tensor.mean(): the total over the number of elements
MeanSeq(s) == Let(s, LAMBDA v : SumTo(v, Len(v)) \div Len(v))

\* floor(log2(v)) for 1 <= v < 2^30
Log2Floor(v) == Let(v, LAMBDA w : CHOOSE e \in 0..29 : 2 ^ e <= w /\ w < 2 ^ (e + 1))

\* 1000 * ln(v) for an integer v >= 1: exact at the powers of two, linear
\* between them
LnMilli(v) ==
    Let(v, LAMBDA w :
    Let(Log2Floor(w), LAMBDA e :
        LET p == 2 ^ e
            fr == IF e > 10 THEN (w - p) \div (2 ^ (e - 10)) ELSE (w - p) * (2 ^ (10 - e))
        IN  Ln2Milli * e + (Ln2Milli * fr) \div 1024))

\* torch.log of a probability given in units of 1e-7, in 1e-3 nat
LnMilliProbUnit == LnMilli(ProbUnit)
LogProbUnit(v) == LnMilli(v) - LnMilliProbUnit

\* 1e6 * exp(-t/1000) for t >= 0 in 1e-3 nat: exact at the multiples of
\* ln 2, linear between them
ExpNegMicro(t) ==
    Let(t, LAMBDA u :
        LET k == u \div Ln2Milli
            r == u % Ln2Milli
        IN  IF k > 20 THEN 0
            ELSE (1000000 * (2 * Ln2Milli - r)) \div (2 * Ln2Milli * (2 ^ k)))

LnMilliMillion == LnMilli(1000000)

\* torch.logsumexp over a vector of 1e-3 nat values
LogSumExp(v) ==
    Let(v, LAMBDA w :
    Let(MaxSeq(w), LAMBDA m :
        m + LnMilli(SumSeq(Tab(Len(w), LAMBDA i : ExpNegMicro(m - w[i]))))
          - LnMilliMillion))

\* 1e7 * sigmoid at 0, 0.5, 1, ..., 17
SigmoidKnots ==
    << 5000000, 6224593, 7310586, 8175745, 8807971, 9241418, 9525741,
       9706878, 9820138, 9890131, 9933071, 9959299, 9975274, 9984988,
       9990889, 9994472, 9996646, 9997966, 9998766, 9999252, 9999546,
       9999725, 9999833, 9999899, 9999939, 9999963, 9999977, 9999986,
       9999992, 9999995, 9999997, 9999998, 9999999, 9999999, 10000000 >>

\* torch.sigmoid of t (units of 1/2048), in units of 1e-7
SigmoidPos(t) ==
    LET j == t \div (TUnit \div 2)
        r == t % (TUnit \div 2)
    IN  IF j + 2 > Len(SigmoidKnots) THEN ProbUnit
        ELSE SigmoidKnots[j + 1]
             + ((SigmoidKnots[j + 2] - SigmoidKnots[j + 1]) * r) \div (TUnit \div 2)

Sigmoid(t) ==
    Let(t, LAMBDA u : IF u < 0 THEN ProbUnit - SigmoidPos(-u) ELSE SigmoidPos(u))

\* x / 2^k
DivPow2(x, k) == IF k >= 0 THEN x \div (2 ^ k) ELSE x * (2 ^ (-k))

RECURSIVE ISqrtIn(_, _, _)
ISqrtIn(n, lo, hi) ==
    IF lo >= hi THEN lo
    ELSE LET mid == (lo + hi + 1) \div 2
         IN  IF mid * mid <= n THEN ISqrtIn(n, mid, hi) ELSE ISqrtIn(n, lo, mid - 1)

\* floor of the square root
ISqrt(n) == ISqrtIn(n, 0, Min(n, 46340))

\* a / b rounded to the nearest integer, b > 0
RoundDiv(a, b) == (2 * a + b) \div (2 * b)

(* ---------------------- torch.distributions ---------------------------- *)
\* The registry: the names the module accepts and the family each selects.
\* Looking up any other name raises KeyError.
distributions == [laplace |-> "Laplace", normal |-> "Normal"]

LnMilliLatUnit == LnMilli(LatUnit)

\* dist.log_prob at one element; loc, scale, x in units of 1/16
LogProbAt(family, loc, scale, x) ==
    IF family = "Normal"
    THEN -(((x - loc) * (x - loc) * 1000) \div (2 * scale * scale))
         - (LnMilli(scale) - LnMilliLatUnit) - 919
    ELSE -(LnMilli(2 * scale) - LnMilliLatUnit)
         - ((Abs(x - loc) * 1000) \div scale)

\* dist.log_prob(x) for x of the distribution's shape (N, D)
log_prob(dist, x) ==
    Tab(Len(x), LAMBDA i :
        Tab(Len(x[i]), LAMBDA d :
            LogProbAt(dist.family, dist.loc[i][d], dist.scale[i][d], x[i][d])))

\* dist.rsample(): loc + scale * eps, eps the standard noise of the family
rsample(dist, eps) ==
    Tab(Len(dist.loc), LAMBDA i :
        Tab(Len(dist.loc[i]), LAMBDA d :
            dist.loc[i][d] + dist.scale[i][d] * eps[i][d]))

(* ---------------------- discretized_logistic --------------------------- *)
\* mean.clamp(min=-0.5 + 1/512, max=0.5 - 1/512), one pixel
dl_clamp_mut(m) == m
dl_clamp(m) == Min(Max(m, -256 + 1), 256 - 1)

\* (floor(sample / binsize) * binsize - mean) / scale, one pixel, in 1/2048
dl_sample(m, logscale, s) == DivPow2((((s \div 2) * 2) - dl_clamp(m)) * 4, logscale)

\* binsize / scale, in 1/2048
dl_bin(logscale) == DivPow2(2 * 4, logscale)

\* sigmoid(sample + binsize / scale) - sigmoid(sample), one pixel
dl_cdf(m, logscale, s) ==
    Let(dl_sample(m, logscale, s), LAMBDA t :
        Sigmoid(t + dl_bin(logscale)) - Sigmoid(t))

\* the argument of torch.log: the difference plus 1e-7
dl_arg(m, logscale, s) == dl_cdf(m, logscale, s) + 1

\* log_pxz.sum(dim=(1, 2, 3)): one value per batch element
discretized_logistic(mean, logscale, sample) ==
    Tab(Len(mean), LAMBDA i :
        SumSeq(Tab(Len(mean[i]), LAMBDA p :
            LogProbUnit(dl_arg(mean[i][p], logscale, sample[i][p])))))

(* ------------------------- kl_divergence_mc ---------------------------- *)
\* x = p.rsample([num_samples]) with noise eps of shape (num_samples, N, D);
\* (log_px - log_qx).mean(dim=0).sum(dim=1)
kl_divergence_mc(p, q, eps) ==
    Let(Tab(Len(eps), LAMBDA s : rsample(p, eps[s])), LAMBDA x :
    Let(Tab(Len(eps), LAMBDA s : log_prob(p, x[s])), LAMBDA log_px :
    Let(Tab(Len(eps), LAMBDA s : log_prob(q, x[s])), LAMBDA log_qx :
        Tab(Len(p.loc), LAMBDA i :
            SumSeq(Tab(Len(p.loc[i]), LAMBDA d :
                MeanSeq(Tab(Len(eps), LAMBDA s : log_px[s][i][d] - log_qx[s][i][d]))))))))

(* ------------------------------ torch.nn ------------------------------- *)
\* The values a freshly initialised (or updated) weight and bias take: a
\* family of parameter settings indexed by seed, one non-zero weight per row
InitWeight(seed, o, i, n) ==
    IF i = ((o + seed) % n) + 1
    THEN (IF (o + seed) % 2 = 0 THEN 1 ELSE -1)
    ELSE 0

InitBias(seed, o) == ((o + seed) % 3) - 1

\* nn.Linear(in_features, out_features, bias)
nn_Linear(in_features, out_features, bias, seed) ==
    [kind |-> "Linear",
     in_features |-> in_features,
     out_features |-> out_features,
     use_bias |-> bias,
     weight |-> Tab(out_features, LAMBDA o :
                    Tab(in_features, LAMBDA i : InitWeight(seed, o, i, in_features))),
     bias |-> IF bias THEN Tab(out_features, LAMBDA o : InitBias(seed, o)) ELSE <<>>]

\* nn.Linear's bias argument when the caller gives none
nn_Linear_default_bias == TRUE

\* nn.BatchNorm1d(num_features): statistics in units of 1e-3
nn_BatchNorm1d(num_features) ==
    [kind |-> "BatchNorm1d",
     num_features |-> num_features,
     weight |-> Tab(num_features, LAMBDA h : 1),
     bias |-> Tab(num_features, LAMBDA h : 0),
     running_mean |-> Tab(num_features, LAMBDA h : 0),
     running_var |-> Tab(num_features, LAMBDA h : 1000),
     num_batches_tracked |-> 0]

nn_ReLU == [kind |-> "ReLU"]

Column(X, h) == Tab(Len(X), LAMBDA i : X[i][h])

BatchMeanMilli(col) == Let(col, LAMBDA c : (1000 * SumSeq(c)) \div Len(c))

\* the batch variance with divisor N - ddof
BatchVarMilli(col, ddof) ==
    Let(col, LAMBDA c :
    Let(BatchMeanMilli(c), LAMBDA m :
        SumSeq(Tab(Len(c), LAMBDA i : (1000 * c[i] - m) * (1000 * c[i] - m)))
        \div (1000 * (Len(c) - ddof))))

\* (x - mean) / sqrt(var + eps), eps = 1e-5, rounded to the unit
Normalize(x, meanMilli, varMilli) ==
    RoundDiv(1000 * x - meanMilli, ISqrt(varMilli * 1000 + 10))

\* one layer applied to a batch X of vectors
ApplyLayer(layer, X, training) ==
    IF layer.kind = "Linear"
    THEN Tab(Len(X), LAMBDA i :
            Tab(layer.out_features, LAMBDA o :
                SumSeq(Tab(layer.in_features, LAMBDA j : layer.weight[o][j] * X[i][j]))
                + (IF layer.use_bias THEN layer.bias[o] ELSE 0)))
    ELSE IF layer.kind = "ReLU"
    THEN Tab(Len(X), LAMBDA i : Tab(Len(X[i]), LAMBDA h : Max(X[i][h], 0)))
    ELSE Let(Tab(layer.num_features, LAMBDA h :
                IF training
                THEN << BatchMeanMilli(Column(X, h)), BatchVarMilli(Column(X, h), 0) >>
                ELSE << layer.running_mean[h], layer.running_var[h] >>), LAMBDA stats :
         Tab(Len(X), LAMBDA i :
            Tab(layer.num_features, LAMBDA h :
                layer.weight[h] * Normalize(X[i][h], stats[h][1], stats[h][2])
                + layer.bias[h])))

\* the layer after it has seen X: batch normalisation in training mode moves
\* its running statistics (momentum 0.1) and counts the batch
TrackLayer(layer, X, training) ==
    IF layer.kind = "BatchNorm1d" /\ training
    THEN Let(X, LAMBDA Y :
         [layer EXCEPT
            !.running_mean = Tab(layer.num_features, LAMBDA h :
                (9 * layer.running_mean[h] + BatchMeanMilli(Column(Y, h))) \div 10),
            !.running_var = Tab(layer.num_features, LAMBDA h :
                (9 * layer.running_var[h] + BatchVarMilli(Column(Y, h), 1)) \div 10),
            !.num_batches_tracked = layer.num_batches_tracked + 1])
    ELSE layer

\* nn.Sequential: the output of the first k layers
RECURSIVE ApplyLayers(_, _, _, _)
ApplyLayers(layers, k, X, training) ==
    IF k = 0 THEN X
    ELSE Let(ApplyLayers(layers, k - 1, X, training), LAMBDA Y :
            ApplyLayer(layers[k], Y, training))

(* ------------------------------ Projection ----------------------------- *)
\* the hidden_dim a Projection gets when the caller gives none (2048 in the
\* code)
ProjectionHiddenDim == 2

\* Projection.__init__
Projection_init(input_dim, hidden_dim, output_dim, seed) ==
    [input_dim |-> input_dim,
     hidden_dim |-> hidden_dim,
     output_dim |-> output_dim,
     model |->
        IF hidden_dim > 0
        THEN << nn_Linear(input_dim, hidden_dim, TRUE, seed),
                nn_BatchNorm1d(hidden_dim),
                nn_ReLU,
                nn_Linear(hidden_dim, output_dim, FALSE, seed + 1) >>
        ELSE << nn_Linear(input_dim, output_dim, nn_Linear_default_bias, seed) >>]

\* Projection.forward
Projection_forward(proj, x, training) ==
    ApplyLayers(proj.model, Len(proj.model), x, training)

\* the Projection after forward(x): its layers' buffers
Projection_track(proj, x, training) ==
    [proj EXCEPT !.model = Tab(Len(proj.model), LAMBDA k :
        TrackLayer(proj.model[k], ApplyLayers(proj.model, k - 1, x, training), training))]

\* the learned parameters of a Projection (nn.Module.parameters())
Projection_parameters(proj) ==
    Tab(Len(proj.model), LAMBDA k :
        IF proj.model[k].kind = "ReLU" THEN <<>>
        ELSE << proj.model[k].weight, proj.model[k].bias >>)

\* the Projection with the parameters of seed and its own buffers
Projection_reseed(proj, seed) ==
    LET fresh == Projection_init(proj.input_dim, proj.hidden_dim, proj.output_dim, seed)
    IN  [proj EXCEPT !.model = Tab(Len(proj.model), LAMBDA k :
            IF proj.model[k].kind = "Linear" THEN fresh.model[k] ELSE proj.model[k])]

(* ------------------------- resnet, metrics ----------------------------- *)
\* The registries of backbones; any other name raises KeyError.
encoders == [resnet18 |-> "resnet18_encoder", resnet50 |-> "resnet50_encoder"]
decoders == [resnet18 |-> "resnet18_decoder", resnet50 |-> "resnet50_decoder"]

\* An encoder: image -> feature vector of out_dim non-negative features
resnet_encoder(name, first_conv, maxpool1, seed) ==
    LET out_dim == IF name = "resnet18" THEN FeatDim ELSE 2 * FeatDim
    IN  [arch |-> encoders[name],
         first_conv |-> first_conv,
         maxpool1 |-> maxpool1,
         out_dim |-> out_dim,
         weight |-> Tab(out_dim, LAMBDA j : IF (j + seed) % 2 = 0 THEN 1 ELSE -1)]

encoder_forward(enc, x) ==
    Tab(Len(x), LAMBDA i :
        Tab(enc.out_dim, LAMBDA j : Max((enc.weight[j] * SumSeq(x[i])) \div 256, 0)))

\* A decoder: latent vector (units of 1/16) -> image (units of 1/512)
resnet_decoder(name, latent_dim, input_height, first_conv, maxpool1, seed) ==
    [arch |-> decoders[name],
     latent_dim |-> latent_dim,
     input_height |-> input_height,
     first_conv |-> first_conv,
     maxpool1 |-> maxpool1,
     weight |-> Tab(NumPix, LAMBDA p :
                    Tab(latent_dim, LAMBDA d : IF (p + d + seed) % 2 = 0 THEN 1 ELSE -1)),
     bias |-> Tab(NumPix, LAMBDA p : 3 * InitBias(seed, p))]

decoder_forward(dec, z) ==
    Tab(Len(z), LAMBDA i :
        Tab(NumPix, LAMBDA p :
            8 * SumSeq(Tab(dec.latent_dim, LAMBDA d : dec.weight[p][d] * z[i][d]))
            + dec.bias[p]))

\* The Gini coefficient of the magnitudes of each latent vector, in 1e-3
gini_score(z) ==
    Tab(Len(z), LAMBDA i :
        LET n == Len(z[i])
            total == SumSeq(Tab(n, LAMBDA d : Abs(z[i][d])))
            pairs == SumSeq(Tab(n, LAMBDA d :
                        SumSeq(Tab(n, LAMBDA e : Abs(Abs(z[i][d]) - Abs(z[i][e]))))))
        IN  IF total = 0 THEN 0 ELSE (1000 * pairs) \div (2 * n * total))

(* --------------------------------- VAE --------------------------------- *)
\* VAE.__init__ past the backbone lookups: the module object
VAE_init(cfg, seed) ==
    LET encoder == resnet_encoder(cfg.encoder, cfg.first_conv, cfg.maxpool1, seed)
    IN  [hparams |-> cfg,
         lr |-> cfg.lr,
         input_height |-> cfg.input_height,
         in_channels |-> 3,
         latent_dim |-> cfg.latent_dim,
         unlabeled_batch |-> cfg.unlabeled_batch,
         projection |-> cfg.projection,
         max_epochs |-> cfg.max_epochs,
         scheduler |-> cfg.scheduler,
         encoder |-> encoder,
         decoder |-> resnet_decoder(cfg.decoder, cfg.latent_dim, cfg.input_height,
                                    cfg.first_conv, cfg.maxpool1, seed),
         log_scale |-> 0,
         fc_mu |-> IF cfg.projection = "linear"
                   THEN Projection_init(encoder.out_dim, 0, cfg.latent_dim, seed)
                   ELSE Projection_init(encoder.out_dim, ProjectionHiddenDim,
                                        cfg.latent_dim, seed),
         fc_var |-> IF cfg.projection = "linear"
                    THEN Projection_init(encoder.out_dim, 0, cfg.latent_dim, seed + 1)
                    ELSE Projection_init(encoder.out_dim, ProjectionHiddenDim,
                                         cfg.latent_dim, seed + 1),
         prior |-> cfg.prior,
         posterior |-> cfg.posterior,
         training |-> TRUE]

\* whether VAE.__init__ raises (KeyError at the backbone lookups)
VAE_init_raises(cfg) ==
    cfg.encoder \notin DOMAIN encoders \/ cfg.decoder \notin DOMAIN decoders

\* whether VAE.sample raises (KeyError at the distribution lookups)
sample_raises(self) ==
    self.prior \notin DOMAIN distributions \/ self.posterior \notin DOMAIN distributions

\* VAE.sample: std = exp(log_var / 2); p, q; z = q.rsample()
sample(self, mu, log_var, eps) ==
    LET std == Tab(Len(mu), LAMBDA i :
                    Tab(Len(mu[i]), LAMBDA d : DivPow2(LatUnit, -log_var[i][d])))
        p == [family |-> distributions[self.prior],
              loc |-> Tab(Len(mu), LAMBDA i : Tab(Len(mu[i]), LAMBDA d : 0)),
              scale |-> Tab(Len(mu), LAMBDA i : Tab(Len(mu[i]), LAMBDA d : LatUnit))]
        q == [family |-> distributions[self.posterior],
              loc |-> Tab(Len(mu), LAMBDA i : Tab(Len(mu[i]), LAMBDA d : LatUnit * mu[i][d])),
              scale |-> std]
    IN  Let(q, LAMBDA qv : [p |-> p, q |-> qv, z |-> rsample(qv, eps)])

\* VAE.forward
forward(self, x, eps) ==
    Let(encoder_forward(self.encoder, x), LAMBDA feat :
    Let(Projection_forward(self.fc_mu, feat, self.training), LAMBDA mu :
    Let(Projection_forward(self.fc_var, feat, self.training), LAMBDA log_var :
    Let(sample(self, mu, log_var, eps), LAMBDA pqz :
        [z |-> pqz.z, x_hat |-> decoder_forward(self.decoder, pqz.z),
         p |-> pqz.p, q |-> pqz.q]))))

\* forward that also moves log_scale
forward_track_mut(self, x) ==
    Let(encoder_forward(self.encoder, x), LAMBDA feat :
        [self EXCEPT !.fc_mu = Projection_track(self.fc_mu, feat, self.training),
                     !.fc_var = Projection_track(self.fc_var, feat, self.training),
                     !.log_scale = @ - 1])

\* the module after forward(x): the heads have seen the features
forward_track(self, x) ==
    Let(encoder_forward(self.encoder, x), LAMBDA feat :
        [self EXCEPT !.fc_mu = Projection_track(self.fc_mu, feat, self.training),
                     !.fc_var = Projection_track(self.fc_var, feat, self.training)])

\* if self.unlabeled_batch: batch = batch[0]
unwrap(self, batch) == IF self.unlabeled_batch THEN batch[1] ELSE batch

\* the likelihood of the encoded view itself
step_log_pxz_mut(self, x1_hat, x1, x2) == discretized_logistic(x1_hat, self.log_scale, x1)

\* log_pxz = discretized_logistic(x1_hat, self.log_scale, x2)
step_log_pxz(self, x1_hat, x1, x2) == discretized_logistic(x1_hat, self.log_scale, x2)

\* the sign of the reconstruction term flipped
step_elbo_mut(self, kl, log_pxz) == MeanSeq(Tab(Len(kl), LAMBDA i : kl[i] + log_pxz[i]))

\* the KL term weighted by kl_coeff (in units of 1/1000)
step_elbo_kl_coeff(self, kl, log_pxz) ==
    MeanSeq(Tab(Len(kl), LAMBDA i : (self.hparams.kl_coeff * kl[i]) \div 1000 - log_pxz[i]))

\* elbo = (kl - log_pxz).mean()
step_elbo(self, kl, log_pxz) == MeanSeq(Tab(Len(kl), LAMBDA i : kl[i] - log_pxz[i]))

\* VAE.step: the loss, the logs and the values computed on the way.  noise
\* holds the draws of q.rsample() (z) and of the rsample in kl_divergence_mc
\* (kl).
step(self, batch, noise) ==
    Let(unwrap(self, batch), LAMBDA b :
    Let(forward(self, b.x1, noise.z), LAMBDA fw :
    Let(step_log_pxz(self, fw.x_hat, b.x1, b.x2), LAMBDA log_pxz :
    Let(log_prob(fw.q, fw.z), LAMBDA log_qz :
    Let(log_prob(fw.p, fw.z), LAMBDA log_pz :
    Let(kl_divergence_mc(fw.p, fw.q, noise.kl), LAMBDA kl :
    Let(step_elbo(self, kl, log_pxz), LAMBDA elbo :
        LET bpd == elbo \div ((self.input_height * self.input_height * self.in_channels
                               * Ln2Milli) \div 1000)
            gini == gini_score(fw.z)
            n == Len(b.x1)
            marg_log_px ==
                LogSumExp(Tab(n, LAMBDA i :
                    log_pxz[i] + SumSeq(log_pz[i]) - SumSeq(log_qz[i]))) - LnMilli(n)
            logs == [kl |-> MeanSeq(kl),
                     elbo |-> elbo,
                     gini |-> MeanSeq(gini),
                     bpd |-> bpd,
                     log_pxz |-> MeanSeq(log_pxz),
                     marginal_log_px |-> marg_log_px]
        IN  [loss |-> elbo, logs |-> logs,
             z |-> fw.z, x1_hat |-> fw.x_hat, p |-> fw.p, q |-> fw.q,
             log_pxz |-> log_pxz, kl |-> kl])))))))

\* {f"{prefix}{k}": v for k, v in logs.items()}
prefixed(prefix, logs) ==
    [name \in {prefix \o k : k \in DOMAIN logs} |->
        logs[CHOOSE k \in DOMAIN logs : prefix \o k = name]]

\* VAE.training_step: what it returns, its log_dict call, and the step it ran
training_step(self, batch, noise) ==
    Let(step(self, batch, noise), LAMBDA r :
        [ret |-> r.loss,
         log_dict |-> [metrics |-> prefixed("train_", r.logs),
                       on_step |-> "True", on_epoch |-> "False"],
         step |-> r])

\* a validation step that returns the mean KL instead of the loss
validation_step_mut(self, batch, noise) ==
    Let(step(self, batch, noise), LAMBDA r :
        [ret |-> r.logs.kl,
         log_dict |-> [metrics |-> prefixed("val_", r.logs),
                       on_step |-> "default", on_epoch |-> "default"],
         step |-> r])

\* VAE.validation_step: log_dict is called without on_step and on_epoch
validation_step(self, batch, noise) ==
    Let(step(self, batch, noise), LAMBDA r :
        [ret |-> r.loss,
         log_dict |-> [metrics |-> prefixed("val_", r.logs),
                       on_step |-> "default", on_epoch |-> "default"],
         step |-> r])

\* self.parameters(): every learned parameter of the module
parameters(self) ==
    [encoder |-> self.encoder.weight,
     decoder |-> << self.decoder.weight, self.decoder.bias >>,
     log_scale |-> self.log_scale,
     fc_mu |-> Projection_parameters(self.fc_mu),
     fc_var |-> Projection_parameters(self.fc_var)]

\* warmup_epochs=10
WarmupEpochs == 10
\* eta_min=1e-6, in units of 1e-6
EtaMin == 1

\* the schedule's total taken from the warmup length, not from max_epochs
configure_optimizers_mut(self) ==
    LET optimizer == [kind |-> "Adamax", params |-> DOMAIN parameters(self), lr |-> self.lr]
        scheduler == [kind |-> "LinearWarmupCosineAnnealingLR",
                      optimizer |-> optimizer,
                      warmup_epochs |-> WarmupEpochs,
                      max_epochs |-> WarmupEpochs,
                      warmup_start_lr |-> 0,
                      eta_min |-> EtaMin]
    IN  IF self.scheduler
        THEN << << optimizer >>, << scheduler >> >>
        ELSE optimizer

\* VAE.configure_optimizers
configure_optimizers(self) ==
    LET optimizer == [kind |-> "Adamax", params |-> DOMAIN parameters(self), lr |-> self.lr]
        scheduler == [kind |-> "LinearWarmupCosineAnnealingLR",
                      optimizer |-> optimizer,
                      warmup_epochs |-> WarmupEpochs,
                      max_epochs |-> self.max_epochs,
                      warmup_start_lr |-> 0,
                      eta_min |-> EtaMin]
    IN  IF self.scheduler
        THEN << << optimizer >>, << scheduler >> >>
        ELSE optimizer

(* ------------------------------- inputs -------------------------------- *)
\* The constructor arguments of main's defaults, scaled to the bounds
DefaultConfig ==
    [input_height |-> 32, kl_coeff |-> 100, latent_dim |-> MaxLatentDim, lr |-> 1000,
     encoder |-> "resnet18", decoder |-> "resnet18",
     prior |-> "normal", posterior |-> "normal", projection |-> "linear",
     first_conv |-> FALSE, maxpool1 |-> FALSE, unlabeled_batch |-> FALSE,
     max_epochs |-> 200, scheduler |-> FALSE]

\* The configurations a model is constructed with; "cauchy" and "vgg" are in
\* no registry
Configs ==
    { DefaultConfig,
      [DefaultConfig EXCEPT !.kl_coeff = 1000],
      [DefaultConfig EXCEPT !.prior = "laplace", !.posterior = "laplace",
                            !.scheduler = TRUE, !.max_epochs = 100, !.lr = 100,
                            !.input_height = 96, !.first_conv = TRUE],
      [DefaultConfig EXCEPT !.projection = "non_linear", !.encoder = "resnet50",
                            !.decoder = "resnet50", !.latent_dim = 1,
                            !.unlabeled_batch = TRUE, !.maxpool1 = TRUE],
      [DefaultConfig EXCEPT !.prior = "laplace", !.scheduler = TRUE],
      [DefaultConfig EXCEPT !.prior = "cauchy"],
      [DefaultConfig EXCEPT !.posterior = "cauchy"],
      [DefaultConfig EXCEPT !.encoder = "vgg"],
      [DefaultConfig EXCEPT !.decoder = "vgg"] }

KlCoeffs == {100, 1000}
Seeds == {1, 2}
\* the parameter settings an optimizer update may lead to: seed, log_scale
Updates == { <<2, -4>>, <<1, 1>> }

ImgSpot == Tab(NumPix, LAMBDA p : IF p = 1 THEN 205 ELSE 0)
ImgBright == Tab(NumPix, LAMBDA p : 256)
ImgDark == Tab(NumPix, LAMBDA p : -256)
ImgMix == Tab(NumPix, LAMBDA p : IF p % 2 = 1 THEN 256 ELSE -100)

\* (x1, x2, x3), y: two augmented views, the original, the label
Examples ==
    << [x1 |-> ImgBright, x2 |-> ImgSpot, x3 |-> ImgSpot, y |-> 0],
       [x1 |-> ImgDark, x2 |-> ImgMix, x3 |-> ImgMix, y |-> 1],
       [x1 |-> ImgMix, x2 |-> ImgBright, x3 |-> ImgBright, y |-> 2] >>

Collate(ex) ==
    [x1 |-> Tab(Len(ex), LAMBDA i : ex[i].x1),
     x2 |-> Tab(Len(ex), LAMBDA i : ex[i].x2),
     x3 |-> Tab(Len(ex), LAMBDA i : ex[i].x3),
     y |-> Tab(Len(ex), LAMBDA i : ex[i].y)]

\* the batch of BatchSize examples starting at example k
BatchAt(k) == Collate(Tab(BatchSize, LAMBDA i : Examples[((k + i) % Len(Examples)) + 1]))

\* What the data loader yields: a batch, or with unlabeled_batch a pair of
\* batches whose first is the one to use
Batches(unlabeled) ==
    IF unlabeled
    THEN { << BatchAt(k), BatchAt(k + 1) >> : k \in 1..Len(Examples) }
    ELSE { BatchAt(k) : k \in 1..Len(Examples) }

\* The random number generator: a stream of standard noise per seed
NoiseStreams == {0, 1}
NoiseAt(sid, k) == ((sid * (k + 1) + k) % 3) - 1

\* the draws one step consumes: q.rsample() and then p.rsample([1])
Noise(sid, n, dim) ==
    [z |-> Tab(n, LAMBDA i : Tab(dim, LAMBDA d : NoiseAt(sid, (i - 1) * dim + d - 1))),
     kl |-> << Tab(n, LAMBDA i :
                 Tab(dim, LAMBDA d : NoiseAt(sid, n * dim + (i - 1) * dim + d - 1))) >>]

(* ----------------------------- the state ------------------------------- *)
VARIABLES
    pc,      \* "new", "ready", "init_failed" or "step_failed"
    self,    \* the VAE module object
    err,     \* the exception raised, "" if none
    opt,     \* what configure_optimizers returned
    last,    \* the last step: its inputs, the module it ran on, its results
    logged,  \* the last log_dict call
    grad,    \* a training step's loss awaits the optimizer
    nsteps,  \* steps taken
    twin,    \* the last step was a validation step on the inputs and module
             \* state of the training step before it
    call     \* the last direct call of a module-level function or class

vars == << pc, self, err, opt, last, logged, grad, nsteps, twin, call >>

NoModel == [training |-> FALSE]
NoStep == [kind |-> "none"]
NoLog == [hook |-> "none"]
NoCall == [fn |-> "none"]

Init ==
    /\ pc = "new"
    /\ self = NoModel
    /\ err = ""
    /\ opt = [called |-> FALSE, ret |-> << >>]
    /\ last = NoStep
    /\ logged = NoLog
    /\ grad = FALSE
    /\ nsteps = 0
    /\ twin = FALSE
    /\ call = NoCall

\* model = VAE(...)
Construct ==
    /\ pc = "new"
    /\ \E cfg \in Configs, seed \in Seeds :
        IF VAE_init_raises(cfg)
        THEN /\ pc' = "init_failed"
             /\ err' = "KeyError"
             /\ self' = self
        ELSE /\ pc' = "ready"
             /\ err' = err
             /\ self' = VAE_init(cfg, seed)
    /\ UNCHANGED << opt, last, logged, grad, nsteps, twin, call >>

\* model.train() / model.eval()
SetMode ==
    /\ pc = "ready"
    /\ self' = [self EXCEPT !.training = ~self.training]
    /\ UNCHANGED << pc, err, opt, last, logged, grad, nsteps, twin, call >>

\* the trainer asks for the optimizers, once, before it runs any step
ConfigureOptimizers ==
    /\ pc = "ready"
    /\ ~opt.called
    /\ opt' = [called |-> TRUE, ret |-> configure_optimizers(self)]
    /\ UNCHANGED << pc, self, err, last, logged, grad, nsteps, twin, call >>

\* whether two module objects compute the same step: the same parameters,
\* configuration and mode, and in eval mode the same running statistics
SameModuleState(a, b) ==
    /\ parameters(a) = parameters(b)
    /\ a.hparams = b.hparams
    /\ a.training = b.training
    /\ (a.training \/ a = b)

\* One call of training_step or validation_step
RunStep(kind, batch, sid) ==
    LET x1 == unwrap(self, batch).x1
    IN  /\ nsteps' = nsteps + 1
        /\ self' = forward_track(self, x1)
        /\ IF sample_raises(self)
           THEN /\ pc' = "step_failed"
                /\ err' = "KeyError"
                /\ twin' = FALSE
                /\ UNCHANGED << last, logged, grad >>
           ELSE \E noise \in { Noise(sid, Len(x1), self.latent_dim) } :
                \E res \in { IF kind = "training_step"
                              THEN training_step(self, batch, noise)
                              ELSE validation_step(self, batch, noise) } :
                /\ last' = [kind |-> kind, batch |-> batch, noise |-> sid,
                            module |-> self, ret |-> res.ret, out |-> res.step]
                /\ logged' = [hook |-> kind,
                              metrics |-> res.log_dict.metrics,
                              on_step |-> res.log_dict.on_step,
                              on_epoch |-> res.log_dict.on_epoch]
                /\ grad' = (kind = "training_step")
                /\ twin' = /\ last.kind = "training_step"
                           /\ kind = "validation_step"
                           /\ batch = last.batch
                           /\ sid = last.noise
                           /\ SameModuleState(self, last.module)
                /\ UNCHANGED << pc, err >>
        /\ UNCHANGED << opt, call >>

TrainingStep ==
    /\ pc = "ready" /\ opt.called /\ nsteps < MaxSteps
    /\ \E batch \in Batches(self.unlabeled_batch), sid \in NoiseStreams :
        RunStep("training_step", batch, sid)

ValidationStep ==
    /\ pc = "ready" /\ opt.called /\ nsteps < MaxSteps
    /\ \E batch \in Batches(self.unlabeled_batch), sid \in NoiseStreams :
        RunStep("validation_step", batch, sid)

\* optimizer.step() after a training step's backward pass: the parameters
\* move to another setting
OptimizerUpdate ==
    /\ pc = "ready" /\ opt.called /\ grad
    /\ \E u \in Updates :
        LET seed == u[1]
            ls == u[2]
        IN
        self' = [self EXCEPT
                    !.encoder.weight = resnet_encoder(self.hparams.encoder, FALSE, FALSE,
                                                      seed).weight,
                    !.decoder.weight = resnet_decoder(self.hparams.decoder,
                        self.latent_dim, self.input_height, FALSE, FALSE, seed).weight,
                    !.decoder.bias = resnet_decoder(self.hparams.decoder,
                        self.latent_dim, self.input_height, FALSE, FALSE, seed).bias,
                    !.fc_mu = Projection_reseed(self.fc_mu, seed),
                    !.fc_var = Projection_reseed(self.fc_var, seed + 1),
                    !.log_scale = ls]
    /\ grad' = FALSE
    /\ UNCHANGED << pc, err, opt, last, logged, nsteps, twin, call >>

Next ==
    \/ Construct
    \/ SetMode
    \/ ConfigureOptimizers
    \/ TrainingStep
    \/ ValidationStep
    \/ OptimizerUpdate

Spec == Init /\ [][Next]_vars

(* ------------- direct calls of the module-level definitions ------------ *)
DLMeans == {-300, -256, -255, -100, 0, 205, 255, 256, 300}
DLSamples == {-256, -101, 0, 205, 255, 256}
DLLogScales == {-6, -4, -1, 0, 1, 2}

\* discretized_logistic(mean, logscale, sample) on one image, with the
\* values it computes per pixel
CallDiscretizedLogistic ==
    /\ \E m \in DLMeans, s \in DLSamples, k \in DLLogScales :
        LET mean == << Tab(NumPix, LAMBDA p : IF p = 1 THEN m ELSE -m) >>
            target == << Tab(NumPix, LAMBDA p : s) >>
        IN  call' = [fn |-> "discretized_logistic",
                     mean |-> mean, logscale |-> k, sample |-> target,
                     loc |-> Tab(NumPix, LAMBDA p : dl_clamp(mean[1][p])),
                     t |-> Tab(NumPix, LAMBDA p : dl_sample(mean[1][p], k, target[1][p])),
                     cdf |-> Tab(NumPix, LAMBDA p : dl_cdf(mean[1][p], k, target[1][p])),
                     arg |-> Tab(NumPix, LAMBDA p : dl_arg(mean[1][p], k, target[1][p])),
                     out |-> discretized_logistic(mean, k, target)]
    /\ UNCHANGED << pc, self, err, opt, last, logged, grad, nsteps, twin >>

NextDL == CallDiscretizedLogistic

SpecDL == Init /\ [][NextDL]_vars

\* Projection(input_dim, hidden_dim, output_dim) built and applied to a batch
CallProjection ==
    /\ \E input_dim \in 1..2, hidden_dim \in {0, ProjectionHiddenDim},
          output_dim \in 1..2, seed \in Seeds, b \in 0..3, training \in BOOLEAN :
        LET proj == Projection_init(input_dim, hidden_dim, output_dim, seed)
            x == Tab(BatchSize, LAMBDA i : Tab(input_dim, LAMBDA j : b * (i + j - 2)))
        IN  call' = [fn |-> "Projection", module |-> proj, x |-> x,
                     training |-> training,
                     out |-> Projection_forward(proj, x, training)]
    /\ UNCHANGED << pc, self, err, opt, last, logged, grad, nsteps, twin >>

NextProj == CallProjection

SpecProj == Init /\ [][NextProj]_vars

(* ----------------------------- properties ------------------------------ *)
\* the inputs of the last step
LastBatch == unwrap(last.module, last.batch)
LastNoise == Noise(last.noise, Len(LastBatch.x1), last.module.latent_dim)

\* C1: a prior or posterior name outside the registry makes construction
\* fail: no constructed model holds such a name, and no step fails on it.
C1_UnknownFamilyFailsAtConstruction ==
    /\ pc = "ready" => ~sample_raises(self)
    /\ pc # "step_failed"

\* The estimate of E_q[log q - log p]: samples drawn from the posterior q
PosteriorKL(p, q, eps) ==
    Let(Tab(Len(eps), LAMBDA s : rsample(q, eps[s])), LAMBDA x :
        Tab(Len(q.loc), LAMBDA i :
            SumSeq(Tab(Len(q.loc[i]), LAMBDA d :
                MeanSeq(Tab(Len(eps), LAMBDA s :
                    LogProbAt(q.family, q.loc[i][d], q.scale[i][d], x[s][i][d])
                    - LogProbAt(p.family, p.loc[i][d], p.scale[i][d], x[s][i][d])))))))

\* C2: the KL term of a step is, per batch element, the Monte-Carlo estimate
\* of E_q[log q - log p] on samples drawn from the posterior q.
C2_KLSamplesPosterior ==
    last.kind # "none" =>
        /\ Len(last.out.kl) = Len(LastBatch.x1)
        /\ last.out.kl = PosteriorKL(last.out.p, last.out.q, LastNoise.kl)

\* C3: the loss a step returns is the batch mean of kl_i - log_pxz_i, and is
\* the value logged as "elbo".
C3_LossIsMeanKlMinusLogPxz ==
    last.kind # "none" =>
        /\ last.out.loss
            = SumSeq(Tab(Len(last.out.kl), LAMBDA i : last.out.kl[i] - last.out.log_pxz[i]))
              \div Len(last.out.kl)
        /\ last.out.logs.elbo = last.out.loss
        /\ last.ret = last.out.loss

C3_Witness ==
    /\ last.kind # "none"
    /\ \E i \in 1..Len(last.out.kl) : last.out.kl[i] # 0 /\ last.out.log_pxz[i] < 0
    /\ last.out.loss > 0

\* C4: the encoder sees the first view x1 only, and the reconstruction
\* log-likelihood is that of the second view x2 under the decoding of x1.
C4_EncodeFirstViewScoreSecond ==
    last.kind # "none" =>
        \E fw \in { forward(last.module, LastBatch.x1, LastNoise.z) } :
            /\ last.out.z = fw.z
            /\ last.out.x1_hat = fw.x_hat
            /\ last.out.log_pxz
                = discretized_logistic(fw.x_hat, last.module.log_scale, LastBatch.x2)

C4_Witness ==
    /\ last.kind # "none"
    /\ forward(last.module, LastBatch.x2, LastNoise.z).x_hat # last.out.x1_hat
    /\ discretized_logistic(last.out.x1_hat, last.module.log_scale, LastBatch.x1)
        # last.out.log_pxz

\* C6: kl_coeff is recorded only: the same step on a module that differs in
\* kl_coeff alone returns the same loss and logs the same metrics.
C6_KlCoeffRecordedOnly ==
    last.kind # "none" =>
        /\ last.module.hparams.kl_coeff \in KlCoeffs
        /\ \A k \in KlCoeffs :
            \E other \in { [last.module EXCEPT !.hparams.kl_coeff = k] } :
            \E noise \in { LastNoise } :
            \E r \in { IF last.kind = "training_step"
                        THEN training_step(other, last.batch, noise)
                        ELSE validation_step(other, last.batch, noise) } :
                /\ r.ret = last.ret
                /\ r.step.loss = last.out.loss
                /\ r.step.logs = last.out.logs
                /\ r.log_dict.metrics = logged.metrics

C6_Witness ==
    /\ last.kind # "none"
    /\ last.module.hparams.kl_coeff = 1000
    /\ last.out.logs.kl # 0

MetricNames == {"kl", "elbo", "gini", "bpd", "log_pxz", "marginal_log_px"}

ModuleAttributes ==
    {"hparams", "lr", "input_height", "in_channels", "latent_dim", "unlabeled_batch",
     "projection", "max_epochs", "scheduler", "encoder", "decoder", "log_scale",
     "fc_mu", "fc_var", "prior", "posterior", "training"}

Configuration(m) ==
    << m.hparams, m.prior, m.posterior, m.latent_dim, m.projection >>

\* C8: a step leaves the learned parameters and the configuration as they
\* were and stores nothing new on the module (no distribution object); the
\* parameters of a constructed module change only in an optimizer update,
\* which is no step.
C8_StepLeavesParameters ==
    /\ [][nsteps' # nsteps =>
            /\ parameters(self') = parameters(self)
            /\ Configuration(self') = Configuration(self)
            /\ DOMAIN self' = ModuleAttributes]_vars
    /\ [][(pc = "ready" /\ parameters(self') # parameters(self)) =>
            (grad /\ ~grad' /\ nsteps' = nsteps /\ last' = last)]_vars

C8_Witness ==
    /\ nsteps = MaxSteps
    /\ last.kind # "none"
    /\ self # last.module
    /\ parameters(self) = parameters(last.module)
    /\ parameters(self) # parameters(VAE_init(self.hparams, 1))
    /\ parameters(self) # parameters(VAE_init(self.hparams, 2))

\* the optimizer configure_optimizers builds: Adamax over all parameters
\* with the configured learning rate
TheOptimizer == [kind |-> "Adamax", params |-> DOMAIN parameters(self), lr |-> self.hparams.lr]

\* C9 as stated: with the scheduler flag on, the schedule's warmup length,
\* total epoch count and minimum learning rate are each a value of the
\* model's configuration (an epoch count among its epoch counts, a learning
\* rate among its learning rates).
C9_ScheduleTakenFromConfiguration ==
    opt.called =>
        IF self.hparams.scheduler
        THEN /\ opt.ret[1] = << TheOptimizer >>
             /\ opt.ret[2][1].kind = "LinearWarmupCosineAnnealingLR"
             /\ opt.ret[2][1].max_epochs = self.hparams.max_epochs
             /\ opt.ret[2][1].warmup_epochs \in {self.hparams.max_epochs}
             /\ opt.ret[2][1].eta_min \in {self.hparams.lr}
        ELSE opt.ret = TheOptimizer

\* C9, amended: one Adamax optimizer over all parameters; alone when the
\* scheduler flag is off; with the flag on, together with one linear-warmup
\* cosine-annealing schedule whose total epoch count is the configured
\* max_epochs and whose warmup length (10 epochs), warmup start rate (0) and
\* minimum rate (1e-6) are fixed.
C9_ScheduleEpochsFromConfiguration ==
    opt.called =>
        IF self.hparams.scheduler
        THEN /\ Len(opt.ret) = 2
             /\ opt.ret[1] = << TheOptimizer >>
             /\ Len(opt.ret[2]) = 1
             /\ opt.ret[2][1].kind = "LinearWarmupCosineAnnealingLR"
             /\ opt.ret[2][1].optimizer = TheOptimizer
             /\ opt.ret[2][1].max_epochs = self.hparams.max_epochs
             /\ opt.ret[2][1].warmup_epochs = 10
             /\ opt.ret[2][1].warmup_start_lr = 0
             /\ opt.ret[2][1].eta_min = 1
        ELSE opt.ret = TheOptimizer

C9_Witness ==
    /\ opt.called
    /\ self.hparams.scheduler
    /\ self.hparams.max_epochs = 100

\* C5: a Projection with hidden_dim = 0 is one linear layer from input_dim
\* to output_dim without a bias: its output is the weight matrix applied to
\* the input.
C5_LinearHeadHasNoBias ==
    (call.fn = "Projection" /\ call.module.hidden_dim = 0) =>
        /\ Len(call.module.model) = 1
        /\ call.module.model[1].kind = "Linear"
        /\ call.module.model[1].in_features = call.module.input_dim
        /\ call.module.model[1].out_features = call.module.output_dim
        /\ ~call.module.model[1].use_bias
        /\ call.out
            = Tab(Len(call.x), LAMBDA i :
                Tab(call.module.output_dim, LAMBDA o :
                    SumSeq(Tab(call.module.input_dim, LAMBDA j :
                        call.module.model[1].weight[o][j] * call.x[i][j]))))

\* C10: the location used by discretized_logistic lies in
\* [-0.5 + 1/512, 0.5 - 1/512] whatever the mean, is the mean itself when
\* the mean is in that interval, and the argument of the logarithm is the
\* bin's CDF difference plus 1e-7, which is positive.
C10_ClampedMeanPositiveLogArgument ==
    call.fn = "discretized_logistic" =>
        \A p \in 1..Len(call.loc) :
            /\ call.loc[p] >= -256 + 1 /\ call.loc[p] <= 256 - 1
            /\ (call.mean[1][p] >= -255 /\ call.mean[1][p] <= 255)
                => call.loc[p] = call.mean[1][p]
            /\ call.t[p] = DivPow2((((call.sample[1][p] \div 2) * 2) - call.loc[p]) * 4,
                                   call.logscale)
            /\ call.cdf[p] >= 0
            /\ call.arg[p] = call.cdf[p] + 1
            /\ call.arg[p] > 0

C10_Witness ==
    /\ call.fn = "discretized_logistic"
    /\ \E p \in 1..Len(call.loc) :
        /\ call.mean[1][p] > 256
        /\ call.cdf[p] = 0
    /\ \E p \in 1..Len(call.loc) : call.mean[1][p] < -256 /\ call.loc[p] = -255

=============================================================================
